---------------------------- MODULE Spec2Model ----------------------------
(***************************************************************************)
(* A model of the Gradescope archiver: gradescope_lib.py (the library),    *)
(* gradescope_archiver.py (the stand-alone script) and                     *)
(* gradescope_course_manager.py.                                           *)
(*                                                                         *)
(* The program is sequential.  Each entry point is modelled as its own     *)
(* state machine over the shared variables; `component' says which entry   *)
(* point a behaviour runs:                                                 *)
(*   "classify"  the graded/ungraded decision of download_course           *)
(*   "courses"   get_courses (library and script)                          *)
(*   "archive"   _extract_if_archive / _extract_nested_archives            *)
(*   "download"  download_assignment / _try_direct_downloads               *)
(*   "run"       download_course and the loops that call it                *)
(*                                                                         *)
(* Text is a sequence of tokens.  A token is one character class ("9" a    *)
(* digit, "." "/" "-" "_" themselves, " " whitespace, "a" a letter, "x"    *)
(* any other character) or one of the literals the code searches for       *)
(* ("Graded", "Submitted"), which no other token sequence spells.          *)
(***************************************************************************)
EXTENDS Integers, Sequences, FiniteSets, TLC

VARIABLES
    component,      \* which entry point this behaviour runs
    \* ---- the graded/ungraded decision
    clsTitle,       \* text of the assignment link of the row
    clsStatus,      \* text of the status cell of the row
    clsIndex,       \* status_column_index of the script (-1: not found)
    clsLib,         \* decision of gradescope_lib.download_course
    clsArch,        \* decision of gradescope_archiver.download_course
    \* ---- get_courses
    gcImpl,         \* "lib": gradescope_lib.get_courses, "arch": the script's
    gcDoc,          \* the anchors of the courses document, in document order
    gcCuts,         \* gcCuts[k]: how many anchors are on the page after k-1 clicks
    gcLoaded,       \* index into gcCuts: what the page shows now
    gcButton,       \* last state seen of the "See older courses" button
    gcPc,           \* position in get_courses
    gcI,            \* index of the anchor the scan is at
    gcCourses,      \* the list `courses'
    gcSeen,         \* the set `seen_urls'
    gcRun,          \* 1: first call of get_courses, 2: second call
    gcFirst,        \* what the first call returned
    gcResult,       \* what the last call returned
    \* ---- _extract_if_archive
    arFs,           \* the files under extract_to: path -> content
    arRoot,         \* path of the file _extract_if_archive is called on
    arInput,        \* content of that file when the call starts
    arPc,           \* position in _extract_if_archive / _extract_nested_archives
    arQueue,        \* the list `archives' of _extract_nested_archives
    arK,            \* index in `archives' of the loop of line 236
    arLog,          \* what was done to which file, in order
    \* ---- download_assignment
    dlImpl,         \* "lib": gradescope_lib.download_assignment, "arch": the script's
    dlTitle,        \* assignment_name
    dlPage,         \* the links of the assignment page, in document order
    dlPc,           \* position in download_assignment
    dlSel,          \* index of the selector the outer loop is at
    dlLnk,          \* index of the link the inner loop is at
    dlUrls,         \* the set `downloaded_urls'
    dlCount,        \* successful_downloads
    dlFs,           \* the files of assignment_dir: path -> content
    dlLog,          \* the download attempts made, in order
    \* ---- the run over the courses: main of the script, interactive_workflow
    runImpl,        \* "lib": interactive_workflow, "arch": main --download
    runCourses,     \* the course pages, in the order they are processed
    runPc,          \* position in the run
    runC,           \* index of the course being processed
    runIndex,       \* <<status_column_index>>, <<>> while it is not assigned
    runRow,         \* index of the table row the scan is at
    runQueue,       \* the list `assignments' / `assignments_to_download'
    runA,           \* index of the assignment the download loop is at
    runSan,         \* sanitized_name of interactive_workflow (0: unbound)
    runDirs,        \* the courses whose directory exists
    runLog,         \* what the run did, in order
    \* ---- the sanitizing of names
    snKind,         \* which sanitizing expression is applied
    snName,         \* the name given
    snOnce,         \* the name sanitized once
    snTwice,        \* the sanitized name sanitized again
    snPc,           \* how often the expression was applied
    \* ---- main of the script
    cliArgs,        \* the parsed arguments
    cliAuth,        \* whether the auth file exists
    cliFound,       \* how many courses get_courses returns
    cliDirs,        \* the courses whose directory exists
    cliPc,          \* position in main
    cliI,           \* index of the course a loop of main is at
    cliLog,         \* what main did, in order
    \* ---- the courses store of gradescope_course_manager
    stStore,        \* the content of courses.json: url -> entry
    stPrev,         \* the content before the last call of update_course_data
    stList,         \* discovered_courses of the last call
    stCalls,        \* how many calls were made, the time of the clock
    stPc            \* "called": the last call returned, "raised": it raised

clsVars == <<clsTitle, clsStatus, clsIndex, clsLib, clsArch>>
gcVars == <<gcImpl, gcDoc, gcCuts, gcLoaded, gcButton, gcPc, gcI, gcCourses,
            gcSeen, gcRun, gcFirst, gcResult>>

arVars == <<arFs, arRoot, arInput, arPc, arQueue, arK, arLog>>

dlVars == <<dlImpl, dlTitle, dlPage, dlPc, dlSel, dlLnk, dlUrls, dlCount, dlFs,
            dlLog>>

runVars == <<runImpl, runCourses, runPc, runC, runIndex, runRow, runQueue, runA,
             runSan, runDirs, runLog>>

snVars == <<snKind, snName, snOnce, snTwice, snPc>>

cliVars == <<cliArgs, cliAuth, cliFound, cliDirs, cliPc, cliI, cliLog>>

stVars == <<stStore, stPrev, stList, stCalls, stPc>>

vars == <<component, clsVars, gcVars, arVars, dlVars, runVars, snVars, cliVars, stVars>>

(***************************************************************************)
(* Bounds of the model.                                                    *)
(***************************************************************************)
MaxTextLen == 5
MaxAnchors == 3
MaxClicks == 2
MaxDepth == 3
MaxEntries == 3
MaxLinks == 2
MaxCourses == 2
MaxRows == 2
MaxNameLen == 4
MaxDiscovered == 2
MaxCalls == 2

SeqsUpTo(S, n) == UNION {[1..k -> S] : k \in 0..n}

(***************************************************************************)
(* The variables of a component that a behaviour does not run keep these   *)
(* values.                                                                 *)
(***************************************************************************)
ClsIdle ==
    /\ clsTitle = <<>> /\ clsStatus = <<>> /\ clsIndex = -1
    /\ clsLib = "none" /\ clsArch = "none"

GcIdle ==
    /\ gcImpl = "none" /\ gcDoc = <<>> /\ gcCuts = <<>> /\ gcLoaded = 0
    /\ gcButton = "none" /\ gcPc = "idle" /\ gcI = 0 /\ gcCourses = <<>>
    /\ gcSeen = {} /\ gcRun = 0 /\ gcFirst = <<>> /\ gcResult = <<>>

\* a function with no argument: the entries of a file that is no archive
NoEntries == [p \in {} |-> 0]

ArIdle ==
    /\ arFs = NoEntries /\ arRoot = <<>> /\ arInput = 0 /\ arPc = "idle"
    /\ arQueue = <<>> /\ arK = 0 /\ arLog = <<>>

DlIdle ==
    /\ dlImpl = "none" /\ dlTitle = <<>> /\ dlPage = <<>> /\ dlPc = "idle"
    /\ dlSel = 0 /\ dlLnk = 0 /\ dlUrls = {} /\ dlCount = 0
    /\ dlFs = NoEntries /\ dlLog = <<>>

RunIdle ==
    /\ runImpl = "none" /\ runCourses = <<>> /\ runPc = "idle" /\ runC = 0
    /\ runIndex = <<>> /\ runRow = 0 /\ runQueue = <<>> /\ runA = 0
    /\ runSan = 0 /\ runDirs = {} /\ runLog = <<>>

SnIdle ==
    /\ snKind = "none"
    /\ snName = <<>>
    /\ snOnce = <<>>
    /\ snTwice = <<>>
    /\ snPc = "idle"

CliIdle ==
    /\ cliArgs = <<>>
    /\ cliAuth = FALSE
    /\ cliFound = 0
    /\ cliDirs = {}
    /\ cliPc = "idle"
    /\ cliI = 0
    /\ cliLog = <<>>

StIdle ==
    /\ stStore = NoEntries
    /\ stPrev = NoEntries
    /\ stList = <<>>
    /\ stCalls = 0
    /\ stPc = "idle"

\* what the actions of one component leave alone
clsRest == <<component, gcVars, arVars, dlVars, runVars, snVars, cliVars, stVars>>
gcRest == <<component, clsVars, arVars, dlVars, runVars, snVars, cliVars, stVars>>
arRest == <<component, clsVars, gcVars, dlVars, runVars, snVars, cliVars, stVars>>
dlRest == <<component, clsVars, gcVars, arVars, runVars, snVars, cliVars, stVars>>
runRest == <<component, clsVars, gcVars, arVars, dlVars, snVars, cliVars, stVars>>
cliRest == <<component, clsVars, gcVars, arVars, dlVars, runVars, snVars, stVars>>
snRest == <<component, clsVars, gcVars, arVars, dlVars, runVars, cliVars, stVars>>
stRest == <<component, clsVars, gcVars, arVars, dlVars, runVars, snVars, cliVars>>

(***************************************************************************)
(* Text and the score pattern  \d+(\.\d+)?\s*/\s*\d+(\.\d+)?               *)
(***************************************************************************)
StatusTokens == {"9", ".", "/", " ", "Graded", "Submitted", "x"}

IsDigit(c) == c = "9"
IsSpace(c) == c = " "

\* "lit" in t, for a literal that is one token
Contains(t, lit) == \E i \in 1..Len(t) : t[i] = lit

\* t[i..j] is \d+
AllDigits(t, i, j) == i <= j /\ \A k \in i..j : IsDigit(t[k])

\* t[i..j] is \d+(\.\d+)?
NumberAt(t, i, j) ==
    \/ AllDigits(t, i, j)
    \/ \E d \in (i+1)..(j-1) :
          AllDigits(t, i, d-1) /\ t[d] = "." /\ AllDigits(t, d+1, j)

\* t[i..j] is \s*
AllSpace(t, i, j) == \A k \in i..j : IsSpace(t[k])

\* t[i..j] matches the whole score pattern
ScoreAt(t, i, j) ==
    \E a \in i..j, s \in i..j, b \in i..j :
        /\ a < s /\ s < b
        /\ NumberAt(t, i, a)
        /\ AllSpace(t, a+1, s-1)
        /\ t[s] = "/"
        /\ AllSpace(t, s+1, b-1)
        /\ NumberAt(t, b, j)

\* re.search(r'\d+(\.\d+)?\s*/\s*\d+(\.\d+)?', t)
SearchScore(t) == \E i \in 1..Len(t), j \in 1..Len(t) : ScoreAt(t, i, j)

(***************************************************************************)
(* The decisions.                                                          *)
(***************************************************************************)
\* gradescope_lib.download_course: the condition on the status cell
LibIsGraded(status) == Contains(status, "Graded") \/ SearchScore(status)

\* gradescope_archiver.download_course, status column known
ArchPreciseIsGraded(status) == SearchScore(status)

\* gradescope_archiver.download_course, status column not known: the text of
\* the whole row is scanned
ArchFallbackIsGraded(rowText) ==
    SearchScore(rowText) /\ ~Contains(rowText, "Submitted")

\* row.text_content() of a row <title cell, status cell>
RowText(title, status) == title \o status

ArchIsGraded(index, title, status) ==
    IF index # -1 THEN ArchPreciseIsGraded(status)
    ELSE ArchFallbackIsGraded(RowText(title, status))

Verdict(b) == IF b THEN "graded" ELSE "notgraded"

(***************************************************************************)
(* Component "classify".                                                   *)
(***************************************************************************)
ClsTitles == {<<>>, <<"x">>}

InitClassify ==
    /\ component = "classify"
    /\ clsTitle \in ClsTitles
    /\ clsStatus \in SeqsUpTo(StatusTokens, MaxTextLen)
    /\ clsIndex \in {-1, 1}
    /\ clsLib = "none" /\ clsArch = "none"
    /\ GcIdle /\ ArIdle /\ DlIdle /\ RunIdle /\ SnIdle /\ CliIdle /\ StIdle

ClassifyLib ==
    /\ component = "classify" /\ clsLib = "none"
    /\ clsLib' = Verdict(LibIsGraded(clsStatus))
    /\ UNCHANGED <<clsTitle, clsStatus, clsIndex, clsArch, clsRest>>

ClassifyArchiver ==
    /\ component = "classify" /\ clsArch = "none"
    /\ clsArch' = Verdict(ArchIsGraded(clsIndex, clsTitle, clsStatus))
    /\ UNCHANGED <<clsTitle, clsStatus, clsIndex, clsLib, clsRest>>

NextClassify == ClassifyLib \/ ClassifyArchiver

SpecClassify == InitClassify /\ [][NextClassify]_vars

\* The classifier of the design: Graded iff a score or the literal "Graded"
ReferenceIsGraded(t) == SearchScore(t) \/ Contains(t, "Graded")

\* C1: every decision made for a row equals the reference classifier on the
\* row's status text, in the library and in the script.
C1_DecisionIsReference ==
    /\ clsLib # "none" => clsLib = Verdict(ReferenceIsGraded(clsStatus))
    /\ clsArch # "none" => clsArch = Verdict(ReferenceIsGraded(clsStatus))


(***************************************************************************)
(* Component "courses": get_courses.                                       *)
(*                                                                         *)
(* An href is a sequence of tokens: "H" is "https://www.gradescope.com",   *)
(* the others are path segments.  <<>> is a missing or empty href.         *)
(***************************************************************************)
SlashTokens == {"/courses/", "/assignments/", "/submissions/", "/outline/",
                "/grades/", "/announcements/", "/settings/"}

\* href.startswith('/')
StartsWithSlash(href) == href # <<>> /\ href[1] \in SlashTokens

\* f"https://www.gradescope.com{href}" if href.startswith('/') else href
FullUrl(href) == IF StartsWithSlash(href) THEN <<"H">> \o href ELSE href

\* any(k in href for k in keywords)
AnyIn(keywords, href) == \E k \in keywords : Contains(href, k)

LibDenied == {"/assignments/", "/submissions/"}
ArchDenied == {"/assignments/", "/submissions/", "/outline/", "/grades/",
               "/announcements/", "/settings/"}

\* An anchor: its href, whether it is an a.courseBox card, the text of its
\* name element ("" when it has none or it is empty), and whether reading its
\* text raises.
Anchor(h, b, n, r) == [href |-> h, box |-> b, name |-> n, bad |-> r]

AnchorKinds ==
    { Anchor(<<"/courses/", "1">>, TRUE, "A", FALSE),
      Anchor(<<"H", "/courses/", "1">>, TRUE, "B", FALSE),
      Anchor(<<"/courses/", "2">>, TRUE, "C", FALSE),
      Anchor(<<"/courses/", "1", "/assignments/", "7">>, TRUE, "D", FALSE),
      Anchor(<<"/courses/", "2", "/grades/">>, FALSE, "E", FALSE),
      Anchor(<<"/courses/", "2">>, TRUE, "", FALSE),
      Anchor(<<"/courses/", "1">>, TRUE, "A", TRUE),
      Anchor(<<>>, TRUE, "F", FALSE) }

\* the anchors on the page now
GcPage == SubSeq(gcDoc, 1, gcCuts[gcLoaded])

\* page.locator("a.courseBox").all()
LibCards(page) == SelectSeq(page, LAMBDA a : a.box)

\* page.locator('a[href*="/courses/"]').all()
ArchLinks(page) == SelectSeq(page, LAMBDA a : Contains(a.href, "/courses/"))

GcCandidates == IF gcImpl = "lib" THEN LibCards(GcPage) ELSE ArchLinks(GcPage)

\* the library's filter on a card (lines 75-80)
LibAccepts(a) ==
    /\ a.href # <<>> /\ Contains(a.href, "/courses/")
    /\ ~AnyIn(LibDenied, a.href)

\* the script's filter on a link (lines 228-246)
ArchAccepts(a) ==
    /\ a.href # <<>> /\ Contains(a.href, "/courses/") /\ a.name # ""
    /\ ~AnyIn(ArchDenied, a.href)

\* full_name of a card (line 91)
LibName(a) == IF a.name # "" THEN a.name ELSE "Unknown"

Course(u, n) == [url |-> u, name |-> n]

\* any(c['url'] == course_url for c in courses)
HasUrl(courses, u) == \E k \in 1..Len(courses) : courses[k].url = u

\* seen_urls = set() on entry (line 69)
LibFreshSeen == {}

IncreasingCuts(n) ==
    { c \in UNION {[1..k -> 0..n] : k \in 1..(MaxClicks + 1)} :
        /\ c[Len(c)] = n
        /\ \A k \in 1..(Len(c) - 1) : c[k] < c[k+1] }

InitCourses ==
    /\ component = "courses"
    /\ ClsIdle /\ ArIdle /\ DlIdle /\ RunIdle /\ SnIdle /\ CliIdle /\ StIdle
    /\ gcImpl \in {"lib", "arch"}
    /\ gcDoc \in SeqsUpTo(AnchorKinds, MaxAnchors)
    /\ gcCuts \in IncreasingCuts(Len(gcDoc))
    /\ gcLoaded = 1
    /\ gcButton = "none"
    /\ gcPc = "paginate"
    /\ gcI = 0
    /\ gcCourses = <<>>
    /\ gcSeen = {}
    /\ gcRun = 1
    /\ gcFirst = <<>>
    /\ gcResult = <<>>

\* The button is visible and the click loads the next part of the document
\* (lines 58-62; script lines 117-135).  In the script the scan that follows
\* is inside the loop (lines 162-294).
GcLoadMore ==
    /\ component = "courses" /\ gcPc = "paginate"
    /\ gcLoaded < Len(gcCuts)
    /\ gcLoaded' = gcLoaded + 1
    /\ gcButton' = "visible"
    /\ IF gcImpl = "lib"
       THEN UNCHANGED <<gcPc, gcI, gcCourses, gcSeen>>
       ELSE gcPc' = "scan" /\ gcI' = 1 /\ gcCourses' = <<>> /\ UNCHANGED gcSeen
    /\ UNCHANGED <<gcImpl, gcDoc, gcCuts, gcRun, gcFirst, gcResult, gcRest>>

\* The button is absent or not visible, or the click raises: break (lines
\* 63-66; script lines 138-156).  The library then scans (lines 68-72), the
\* script has left the loop the scan is in.
GcStop ==
    /\ component = "courses" /\ gcPc = "paginate"
    /\ gcLoaded = Len(gcCuts)
    /\ \E b \in {"absent", "hidden", "raises"} : gcButton' = b
    /\ IF gcImpl = "lib"
       THEN gcPc' = "scan" /\ gcI' = 1 /\ gcCourses' = <<>>
            /\ gcSeen' = LibFreshSeen
       ELSE gcPc' = "return" /\ UNCHANGED <<gcI, gcCourses, gcSeen>>
    /\ UNCHANGED <<gcImpl, gcDoc, gcCuts, gcLoaded, gcRun, gcFirst, gcResult,
                   gcRest>>

\* LibScanStep without the duplicate check of lines 86-87
LibScanStepNoSkip(a) ==
    IF ~LibAccepts(a)
    THEN UNCHANGED <<gcCourses, gcSeen>>
    ELSE /\ gcSeen' = gcSeen \cup {FullUrl(a.href)}
         /\ IF a.bad
            THEN UNCHANGED gcCourses
            ELSE gcCourses' = Append(gcCourses, Course(FullUrl(a.href), LibName(a)))

\* One iteration of the library's loop over the cards (lines 72-105).
LibScanStep(a) ==
    IF ~LibAccepts(a) \/ FullUrl(a.href) \in gcSeen
    THEN UNCHANGED <<gcCourses, gcSeen>>
    ELSE /\ gcSeen' = gcSeen \cup {FullUrl(a.href)}
         /\ IF a.bad
            THEN UNCHANGED gcCourses
            ELSE gcCourses' = Append(gcCourses, Course(FullUrl(a.href), LibName(a)))

GcScanCard ==
    /\ component = "courses" /\ gcPc = "scan" /\ gcImpl = "lib"
    /\ gcI <= Len(GcCandidates)
    /\ LibScanStep(GcCandidates[gcI])
    /\ gcI' = gcI + 1
    /\ UNCHANGED <<gcImpl, gcDoc, gcCuts, gcLoaded, gcButton, gcPc, gcRun,
                   gcFirst, gcResult, gcRest>>

\* One iteration of the script's loop over the links (lines 198-294); reading
\* the text of a link is not guarded (line 210).
ArchScanStep(a) ==
    IF a.bad
    THEN gcPc' = "raised" /\ UNCHANGED gcCourses
    ELSE /\ UNCHANGED gcPc
         /\ IF ArchAccepts(a) /\ ~HasUrl(gcCourses, FullUrl(a.href))
            THEN gcCourses' = Append(gcCourses, Course(FullUrl(a.href), a.name))
            ELSE UNCHANGED gcCourses

GcScanLink ==
    /\ component = "courses" /\ gcPc = "scan" /\ gcImpl = "arch"
    /\ gcI <= Len(GcCandidates)
    /\ ArchScanStep(GcCandidates[gcI])
    /\ gcI' = gcI + 1
    /\ UNCHANGED <<gcImpl, gcDoc, gcCuts, gcLoaded, gcButton, gcSeen, gcRun,
                   gcFirst, gcResult, gcRest>>

\* The scan is over: the library returns, the script loops to the button.
GcScanDone ==
    /\ component = "courses" /\ gcPc = "scan"
    /\ gcI > Len(GcCandidates)
    /\ gcPc' = IF gcImpl = "lib" THEN "return" ELSE "paginate"
    /\ UNCHANGED <<gcImpl, gcDoc, gcCuts, gcLoaded, gcButton, gcI, gcCourses,
                   gcSeen, gcRun, gcFirst, gcResult, gcRest>>

\* return courses (line 108; script line 303); the first call is followed by
\* a second one on the same document, which starts from the first page
\* (lines 45-53) with courses = [] (script line 99).
GcReturn ==
    /\ component = "courses" /\ gcPc = "return"
    /\ gcResult' = gcCourses
    /\ IF gcRun = 1
       THEN /\ gcFirst' = gcCourses /\ gcRun' = 2
            /\ gcPc' = "paginate" /\ gcLoaded' = 1 /\ gcCourses' = <<>>
            /\ gcI' = 0
       ELSE /\ gcPc' = "done"
            /\ UNCHANGED <<gcFirst, gcRun, gcLoaded, gcCourses, gcI>>
    /\ UNCHANGED <<gcImpl, gcDoc, gcCuts, gcButton, gcSeen, gcRest>>

NextCourses ==
    GcLoadMore \/ GcStop \/ GcScanCard \/ GcScanLink \/ GcScanDone \/ GcReturn

SpecCourses == InitCourses /\ [][NextCourses]_vars


\* ---- what the claims about get_courses speak of
GcAccepts(a) == IF gcImpl = "lib" THEN LibAccepts(a) ELSE ArchAccepts(a)
GcNameOf(a) == IF gcImpl = "lib" THEN LibName(a) ELSE a.name

\* candidate i is an accepted anchor of URL u
GcIsOf(i, u) ==
    GcAccepts(GcCandidates[i]) /\ FullUrl(GcCandidates[i].href) = u

\* candidate i is the first accepted anchor of URL u
GcIsFirstOf(i, u) == GcIsOf(i, u) /\ \A j \in 1..(i-1) : ~GcIsOf(j, u)

GcFirstPos(u) == CHOOSE i \in 1..Len(GcCandidates) : GcIsFirstOf(i, u)

\* some anchor of URL u cannot be read
GcUnreadable(u) ==
    \E i \in 1..Len(GcCandidates) : GcIsOf(i, u) /\ GcCandidates[i].bad

\* C8: when get_courses returns, after the load-more affordance has ended
\* (absent, not visible, or the click raised), the list holds the course of
\* every readable accepted anchor of all the pages loaded, in first-seen
\* order; also when the affordance was absent from the start.
C8_ReturnsAllLoaded ==
    gcPc = "return" =>
        /\ \A i \in 1..Len(GcCandidates) :
              LET u == FullUrl(GcCandidates[i].href) IN
              (GcIsOf(i, u) /\ ~GcUnreadable(u)) => HasUrl(gcCourses, u)
        /\ \A k \in 1..Len(gcCourses), l \in 1..Len(gcCourses) :
              k < l => GcFirstPos(gcCourses[k].url) < GcFirstPos(gcCourses[l].url)

\* C9: the list get_courses returns has no two entries of one URL, each entry
\* is read from the first accepted anchor of its URL, the entries are in the
\* order of these first anchors, and a second call on the unchanged document
\* returns the list the first call returned.
C9_DistinctFirstWinsStable ==
    gcPc = "return" =>
        /\ \A k \in 1..Len(gcCourses), l \in 1..Len(gcCourses) :
              k # l => gcCourses[k].url # gcCourses[l].url
        /\ \A k \in 1..Len(gcCourses) :
              \E i \in 1..Len(GcCandidates) :
                  /\ GcIsFirstOf(i, gcCourses[k].url)
                  /\ gcCourses[k].name = GcNameOf(GcCandidates[i])
        /\ \A k \in 1..Len(gcCourses), l \in 1..Len(gcCourses) :
              k < l => GcFirstPos(gcCourses[k].url) < GcFirstPos(gcCourses[l].url)
        /\ gcRun = 2 => gcCourses = gcFirst

\* a second call returns two courses from a document in which one URL is on
\* two accepted anchors with different names
C9_Witness ==
    /\ gcPc = "return" /\ gcRun = 2 /\ Len(gcCourses) = 2
    /\ \E i \in 1..Len(GcCandidates), j \in 1..Len(GcCandidates) :
          /\ i < j
          /\ GcIsOf(i, FullUrl(GcCandidates[i].href))
          /\ GcIsOf(j, FullUrl(GcCandidates[i].href))
          /\ GcNameOf(GcCandidates[i]) # GcNameOf(GcCandidates[j])


(***************************************************************************)
(* Component "archive": _extract_if_archive and _extract_nested_archives.  *)
(*                                                                         *)
(* A file name is a sequence of tokens, the stem and then each dotted      *)
(* part; a path is a sequence of names below extract_to.  The content of   *)
(* a file is [fmt, entries]: fmt "data" is a file that is no archive,      *)
(* "zip" a zip file and "tar" a tar file (compressed or not); entries maps *)
(* the member paths of an archive to their contents.                       *)
(***************************************************************************)
NameTxt == <<"f", ".txt">>
NameZip == <<"n", ".zip">>
NameTarGz == <<"m", ".tar", ".gz">>
NameTgz == <<"K", ".TGZ">>
NameDir == <<"d">>

\* str.lower() on one token
Lower(tok) ==
    CASE tok = ".TGZ" -> ".tgz"
      [] tok = ".ZIP" -> ".zip"
      [] tok = "K" -> "k"
      [] OTHER -> tok

LowerName(name) == [i \in 1..Len(name) |-> Lower(name[i])]

\* name.endswith(the dotted parts in `tail')
EndsWith(name, tail) ==
    /\ Len(name) >= Len(tail)
    /\ SubSeq(name, Len(name) - Len(tail) + 1, Len(name)) = tail

\* the tokens that are a dot and what follows it
ExtTokens == {".txt", ".zip", ".tar", ".gz", ".bz2", ".tgz", ".pdf", ".py",
              ".java", ".cpp", ".c", ".h"}

\* Path(name).suffix: the last dotted part, when something precedes it
Suffix(name) ==
    IF Len(name) >= 2 /\ name[Len(name)] \in ExtTokens
    THEN name[Len(name)] ELSE ""

\* _get_full_extension (lines 257-266)
FullExtension(name) ==
    LET low == LowerName(name) IN
    IF EndsWith(low, <<".tar", ".gz">>) THEN ".tar.gz"
    ELSE IF EndsWith(low, <<".tar", ".bz2">>) THEN ".tar.bz2"
    ELSE Suffix(low)

ArchiveExts == {".zip", ".tar", ".tar.gz", ".tgz", ".tar.bz2"}

FileName(path) == path[Len(path)]
Parent(path) == SubSeq(path, 1, Len(path) - 1)

\* the test of lines 198 and 232 on a path
IsArchivePath(path) == FullExtension(FileName(path)) \in ArchiveExts

Data == [fmt |-> "data", entries |-> NoEntries]

\* zipfile.ZipFile(path) for `.zip', tarfile.open(path, 'r:*') otherwise:
\* whether opening and extracting the content succeeds
Extractable(path, content) ==
    content.fmt = (IF FullExtension(FileName(path)) = ".zip" THEN "zip" ELSE "tar")

\* extractall(dir): every member is written below dir, over what is there
ExtractAll(fs, dir, content) ==
    LET new == {dir \o r : r \in DOMAIN content.entries} IN
    [q \in (DOMAIN fs) \cup new |->
        IF q \in new
        THEN content.entries[CHOOSE r \in DOMAIN content.entries : dir \o r = q]
        ELSE fs[q]]

\* path.unlink() that leaves the file
UnlinkKeeps(fs, path) == fs

\* path.unlink()
Unlink(fs, path) == [q \in (DOMAIN fs) \ {path} |-> fs[q]]

\* os.walk(directory) filtered by extension (lines 227-233)
ArchivesIn(fs) == {q \in DOMAIN fs : IsArchivePath(q)}

\* the orders in which os.walk may list the files of set S
OrdersOf(S) ==
    {o \in [1..Cardinality(S) -> S] :
        \A i \in 1..Cardinality(S), j \in 1..Cardinality(S) :
            i # j => o[i] # o[j]}

Event(op, path) == [op |-> op, path |-> path]

\* ---- the inputs
EntryPaths == {<<NameTxt>>, <<NameZip>>, <<NameDir, NameTarGz>>, <<NameTgz>>}
RootNames == {<<"r", ".zip">>, <<"r", ".tar", ".bz2">>, <<"r", ".pdf">>}
Fmts == {"zip", "tar"}

RECURSIVE SumSizes(_, _)
RECURSIVE Size(_)
\* the number of members of a content, nested ones included
Size(c) == SumSizes(c.entries, DOMAIN c.entries)
SumSizes(e, S) ==
    IF S = {} THEN 0
    ELSE LET r == CHOOSE r \in S : TRUE IN
         1 + Size(e[r]) + SumSizes(e, S \ {r})

\* a member with a name that is no archive name holds data
PlainIsData(e) ==
    \A r \in DOMAIN e : ~IsArchivePath(r) => e[r] = Data

\* the contents of at most d levels of archives and at most n members
RECURSIVE Contents(_, _)
Contents(d, n) ==
    {Data} \cup
    (IF d = 0 THEN {}
     ELSE { [fmt |-> f, entries |-> e] :
              f \in Fmts,
              e \in UNION { { m \in [S -> Contents(d - 1, n - Cardinality(S))] :
                                PlainIsData(m) /\ SumSizes(m, S) <= n }
                            : S \in {T \in SUBSET EntryPaths : Cardinality(T) <= n} } })

\* An archive that holds a member of its own name in its own directory
\* overwrites itself while it is read; such inputs are left out.
RECURSIVE NoSelfMember(_, _)
NoSelfMember(path, c) ==
    /\ \A r \in DOMAIN c.entries :
          /\ Parent(path) \o r # path
          /\ NoSelfMember(Parent(path) \o r, c.entries[r])

InitArchive ==
    /\ component = "archive"
    /\ ClsIdle /\ GcIdle /\ DlIdle /\ RunIdle /\ SnIdle /\ CliIdle /\ StIdle
    /\ arRoot \in {<<n>> : n \in RootNames}
    /\ arInput \in Contents(MaxDepth, MaxEntries)
    /\ NoSelfMember(arRoot, arInput)
    /\ arFs = [q \in {arRoot} |-> arInput]
    /\ arPc = "start"
    /\ arQueue = <<>>
    /\ arK = 0
    /\ arLog = <<>>

\* lines 196-199: a file that is no archive by its name is left alone
ArNotArchive ==
    /\ component = "archive" /\ arPc = "start"
    /\ ~IsArchivePath(arRoot)
    /\ arPc' = "done"
    /\ UNCHANGED <<arFs, arRoot, arInput, arQueue, arK, arLog, arRest>>

\* lines 203-211: the archive is extracted into extract_to
ArExtractRoot ==
    /\ component = "archive" /\ arPc = "start"
    /\ IsArchivePath(arRoot)
    /\ Extractable(arRoot, arFs[arRoot])
    /\ arFs' = ExtractAll(arFs, Parent(arRoot), arFs[arRoot])
    /\ arLog' = Append(arLog, Event("extract", arRoot))
    /\ arPc' = "unlinkRoot"
    /\ UNCHANGED <<arRoot, arInput, arQueue, arK, arRest>>

\* lines 203-209 raise, lines 218-219 catch: the call returns
ArRootFails ==
    /\ component = "archive" /\ arPc = "start"
    /\ IsArchivePath(arRoot)
    /\ ~Extractable(arRoot, arFs[arRoot])
    /\ arLog' = Append(arLog, Event("fail", arRoot))
    /\ arPc' = "done"
    /\ UNCHANGED <<arFs, arRoot, arInput, arQueue, arK, arRest>>

\* line 212
ArUnlinkRoot ==
    /\ component = "archive" /\ arPc = "unlinkRoot"
    /\ arFs' = Unlink(arFs, arRoot)
    /\ arLog' = Append(arLog, Event("unlink", arRoot))
    /\ arPc' = "scan"
    /\ UNCHANGED <<arRoot, arInput, arQueue, arK, arRest>>

\* lines 226-233: the archives below extract_to are collected, once
ArScan ==
    /\ component = "archive" /\ arPc = "scan"
    /\ arQueue' \in OrdersOf(ArchivesIn(arFs))
    /\ arK' = 1
    /\ arPc' = "nested"
    /\ UNCHANGED <<arFs, arRoot, arInput, arLog, arRest>>

\* lines 236-249: the next collected archive is extracted into its directory
ArExtractNested ==
    /\ component = "archive" /\ arPc = "nested"
    /\ arK <= Len(arQueue)
    /\ Extractable(arQueue[arK], arFs[arQueue[arK]])
    /\ arFs' = ExtractAll(arFs, Parent(arQueue[arK]), arFs[arQueue[arK]])
    /\ arLog' = Append(arLog, Event("extract", arQueue[arK]))
    /\ arPc' = "unlinkNested"
    /\ UNCHANGED <<arRoot, arInput, arQueue, arK, arRest>>

\* where the loop would go after a nested archive that cannot be extracted,
\* were the failure to end the loop
AfterNestedFailureStop(k, n) == n + 1

\* where the loop goes after a nested archive that cannot be extracted: the
\* except of lines 253-254 is inside the loop, the next archive is tried
AfterNestedFailure(k, n) == k + 1

\* lines 238-247 raise, lines 253-254 catch
ArNestedFails ==
    /\ component = "archive" /\ arPc = "nested"
    /\ arK <= Len(arQueue)
    /\ ~Extractable(arQueue[arK], arFs[arQueue[arK]])
    /\ arLog' = Append(arLog, Event("fail", arQueue[arK]))
    /\ arK' = AfterNestedFailure(arK, Len(arQueue))
    /\ UNCHANGED <<arFs, arRoot, arInput, arPc, arQueue, arRest>>

\* line 250
ArUnlinkNested ==
    /\ component = "archive" /\ arPc = "unlinkNested"
    /\ arFs' = Unlink(arFs, arQueue[arK])
    /\ arLog' = Append(arLog, Event("unlink", arQueue[arK]))
    /\ arK' = arK + 1
    /\ arPc' = "nested"
    /\ UNCHANGED <<arRoot, arInput, arQueue, arRest>>

\* the loop of line 236 is over; both functions return
ArFinish ==
    /\ component = "archive" /\ arPc = "nested"
    /\ arK > Len(arQueue)
    /\ arPc' = "done"
    /\ UNCHANGED <<arFs, arRoot, arInput, arQueue, arK, arLog, arRest>>

NextArchive ==
    \/ ArNotArchive \/ ArExtractRoot \/ ArRootFails \/ ArUnlinkRoot \/ ArScan
    \/ ArExtractNested \/ ArNestedFails \/ ArUnlinkNested \/ ArFinish

SpecArchive == InitArchive /\ [][NextArchive]_vars


\* ---- what the claims about the archives speak of
Logged(op, path) == \E i \in 1..Len(arLog) : arLog[i] = Event(op, path)

\* the members of content c that are archives by their names
ArchiveMembers(c) == {r \in DOMAIN c.entries : IsArchivePath(r)}

\* the call is on an archive that holds exactly one nested archive, which
\* holds only plain files, and both can be extracted
C5_Case ==
    /\ IsArchivePath(arRoot) /\ Extractable(arRoot, arInput)
    /\ Cardinality(ArchiveMembers(arInput)) = 1
    /\ \A r \in ArchiveMembers(arInput) :
          /\ Extractable(r, arInput.entries[r])
          /\ ArchiveMembers(arInput.entries[r]) = {}

\* C5: normalizing an archive that holds exactly one nested archive of plain
\* files, every extraction succeeding, ends with no archive file below the
\* extraction directory and every plain file at its path (the root's members
\* below extract_to, the nested archive's members below the directory the
\* nested archive was in); the root archive is deleted before the nested one
\* is extracted.
C5_OneNestedNormalized ==
    C5_Case =>
        /\ arPc = "done" =>
              /\ ArchivesIn(arFs) = {}
              /\ \A r \in (DOMAIN arInput.entries) \ ArchiveMembers(arInput) :
                    r \in DOMAIN arFs /\ arFs[r] = Data
              /\ \A r \in ArchiveMembers(arInput) :
                    \A m \in DOMAIN arInput.entries[r].entries :
                        /\ Parent(r) \o m \in DOMAIN arFs
                        /\ arFs[Parent(r) \o m] = Data
        /\ \A r \in ArchiveMembers(arInput) :
              Logged("extract", r) => arRoot \notin DOMAIN arFs

\* the call is over on such an archive, whose nested archive is in a
\* directory and holds a plain file, next to a plain file of the root
C5_Witness ==
    /\ C5_Case /\ arPc = "done"
    /\ <<NameTxt>> \in DOMAIN arInput.entries
    /\ <<NameDir, NameTarGz>> \in DOMAIN arInput.entries
    /\ <<NameTxt>> \in DOMAIN arInput.entries[<<NameDir, NameTarGz>>].entries
    /\ Logged("unlink", <<NameDir, NameTarGz>>)

\* C6: when the call on an archive is over and no extraction has failed, no
\* file with an archive extension is left below the extraction directory,
\* whatever the depth of nesting.
C6_NoArchiveLeft ==
    (/\ arPc = "done" /\ IsArchivePath(arRoot)
     /\ \A i \in 1..Len(arLog) : arLog[i].op # "fail")
    => ArchivesIn(arFs) = {}

\* C7: a file is deleted only right after its own extraction succeeded; an
\* archive whose extraction failed is on disk from then on; the call ends
\* normally, and when it does every archive the scan found has been tried:
\* it was extracted and deleted, or its extraction failed.
C7_DeleteOnlyAfterSuccess ==
    /\ \A i \in 1..Len(arLog) :
          arLog[i].op = "unlink" =>
              i > 1 /\ arLog[i-1] = Event("extract", arLog[i].path)
    /\ \A i \in 1..Len(arLog) :
          arLog[i].op = "fail" => arLog[i].path \in DOMAIN arFs
    /\ Logged("fail", arRoot) => arPc = "done"
    /\ arPc = "done" =>
          \A k \in 1..Len(arQueue) :
              \/ Logged("fail", arQueue[k])
              \/ Logged("extract", arQueue[k]) /\ Logged("unlink", arQueue[k])

\* the call is over; one nested archive failed and stayed, another one, later
\* in the list, was extracted and deleted
C7_Witness ==
    /\ arPc = "done"
    /\ \E i \in 1..Len(arLog), j \in 1..Len(arLog) :
          /\ i < j
          /\ arLog[i].op = "fail" /\ arLog[i].path # arRoot
          /\ arLog[i].path \in DOMAIN arFs
          /\ arLog[j].op = "unlink"


(***************************************************************************)
(* _extract_if_archive as one step, for the callers of it: the files it    *)
(* may leave, one result for each order of the scan.                       *)
(***************************************************************************)
\* lines 236-254 on the archives of `order', from the k-th on
RECURSIVE ExtractEach(_, _, _)
ExtractEach(fs, order, k) ==
    IF k > Len(order) THEN fs
    ELSE LET q == order[k] IN
         ExtractEach(IF Extractable(q, fs[q])
                     THEN Unlink(ExtractAll(fs, Parent(q), fs[q]), q)
                     ELSE fs,
                     order, k + 1)

\* _extract_nested_archives (lines 222-254)
ExtractNestedResults(fs) ==
    {ExtractEach(fs, o, 1) : o \in OrdersOf(ArchivesIn(fs))}

\* _extract_if_archive (lines 194-219)
ExtractIfArchiveResults(fs, path) ==
    IF ~IsArchivePath(path) \/ ~Extractable(path, fs[path])
    THEN {fs}
    ELSE ExtractNestedResults(Unlink(ExtractAll(fs, Parent(path), fs[path]), path))

(***************************************************************************)
(* Component "download": download_assignment.                              *)
(*                                                                         *)
(* A title is a sequence of characters: "a" a letter, "9" a digit, " " a   *)
(* blank, "-" "." "_" themselves, "/" any other character; "assignments"   *)
(* stands for the letters of that word.                                    *)
(***************************************************************************)
TitleChars == {"a", "9", " ", "-", ".", "_", "/", "assignments"}

\* c.isalnum()
IsAlnum(c) == c \in {"a", "9", "assignments"}

\* str.strip()
RECURSIVE LStrip(_)
LStrip(t) == IF t # <<>> /\ IsSpace(Head(t)) THEN LStrip(Tail(t)) ELSE t
RECURSIVE RStrip(_)
RStrip(t) ==
    IF t # <<>> /\ IsSpace(t[Len(t)]) THEN RStrip(SubSeq(t, 1, Len(t) - 1)) ELSE t
Strip(t) == LStrip(RStrip(t))

\* "".join(c for c in t if c.isalnum() or c in keep)
KeepChars(t, keep) == SelectSeq(t, LAMBDA c : IsAlnum(c) \/ c \in keep)

\* safe_name of the library (line 297)
LibSafeName(title) == Strip(KeepChars(title, {".", "_", "-", " "}))

\* the stem of sanitized_filename of the script (line 335)
ArchSafeName(title) == Strip(KeepChars(title, {".", "_", "-"}))

\* f"{safe_name}_graded.pdf" (line 298; script line 335)
GradedPdfName(impl, title) ==
    (IF impl = "lib" THEN LibSafeName(title) ELSE ArchSafeName(title))
        \o <<"_graded", ".pdf">>

\* direct_download_selectors (lines 133-148)
Sel(kind, arg) == [kind |-> kind, arg |-> arg]
Selectors ==
    << Sel("contains", <<"/download_submission">>),
       Sel("attr", <<"download">>),
       Sel("suffix", <<".zip">>),
       Sel("suffix", <<".tar", ".gz">>),
       Sel("suffix", <<".tar">>),
       Sel("suffix", <<".tgz">>),
       Sel("suffix", <<".py">>),
       Sel("suffix", <<".java">>),
       Sel("suffix", <<".cpp">>),
       Sel("suffix", <<".c">>),
       Sel("suffix", <<".h">>),
       Sel("suffix", <<".txt">>),
       Sel("suffix", <<".pdf">>),
       Sel("text", <<"Download Graded Copy">>) >>

\* A link: its href (tokens, <<>> when it has none), its text, whether it
\* has a download attribute, whether reading its href raises.
Link(h, t, d, r) == [href |-> h, text |-> t, download |-> d, bad |-> r]

GradedText == "Download Graded Copy"

LinkKinds ==
    { Link(<<"/submissions/1", ".pdf">>, GradedText, FALSE, FALSE),
      Link(<<"/submissions/1", ".pdf">>, "View", FALSE, FALSE),
      Link(<<"/graded_copy">>, GradedText, FALSE, FALSE),
      Link(<<"/download_submission", "/1", ".zip">>, "Code", TRUE, FALSE),
      Link(<<"/files/2", ".py">>, "main.py", FALSE, FALSE),
      Link(<<>>, GradedText, FALSE, FALSE),
      Link(<<"/files/2", ".py">>, "main.py", FALSE, TRUE) }

\* whether a link matches a CSS selector of the list
Matches(sel, l) ==
    CASE sel.kind = "contains" -> Contains(l.href, sel.arg[1])
      [] sel.kind = "attr" -> l.download
      [] sel.kind = "suffix" -> EndsWith(l.href, sel.arg)
      [] sel.kind = "text" -> l.text = sel.arg[1]

\* page.locator(selector).all()
LinksOf(page, k) == SelectSeq(page, LAMBDA l : Matches(Selectors[k], l))

\* page.get_by_role("link", name="Download Graded Copy")
GradedLinks(page) == SelectSeq(page, LAMBDA l : l.text = GradedText)

\* what a click can download: the suggested file name and the content
Download(n, c) == [name |-> n, content |-> c]
Downloads ==
    { Download(<<"submission", ".pdf">>, Data),
      Download(<<"r", ".zip">>, Data),
      Download(<<"r", ".zip">>,
               [fmt |-> "zip", entries |-> [q \in {<<NameTxt>>} |-> Data]]) }

DlTitles == {<<"a", "9">>, <<" ", "a", " ", "/", "9", ".", " ">>}

\* one attempt: the href, "click" or "fetch", whether a file was saved, and
\* the name it was saved under
Attempt(h, via, ok, n) == [href |-> h, via |-> via, ok |-> ok, name |-> n]

\* the test of line 161 without the look-up in downloaded_urls
SkipsLinkNoLookup(href, urls) == href = <<>>

\* `not href or href in downloaded_urls' (line 161)
SkipsLink(href, urls) == href = <<>> \/ href \in urls

\* `successful_downloads == 0' (line 187)
FallbackRuns(count) == count = 0

\* filepath.write_bytes / download.save_as: the file is written, over one of
\* the same name
WriteFile(fs, path, content) ==
    [q \in (DOMAIN fs) \cup {path} |-> IF q = path THEN content ELSE fs[q]]

InitDownload ==
    /\ component = "download"
    /\ ClsIdle /\ GcIdle /\ ArIdle /\ RunIdle /\ SnIdle /\ CliIdle /\ StIdle
    /\ dlImpl \in {"lib", "arch"}
    /\ dlTitle \in DlTitles
    /\ dlPage \in SeqsUpTo(LinkKinds, MaxLinks)
    /\ dlPc = "start"
    /\ dlSel = 0 /\ dlLnk = 0
    /\ dlUrls = {}
    /\ dlCount = 0
    /\ dlFs = NoEntries
    /\ dlLog = <<>>

\* page.goto and wait_for_load_state succeed (lines 113-116; script lines
\* 308-311); the library then starts _try_direct_downloads (lines 150-153)
DlGoto ==
    /\ component = "download" /\ dlPc = "start"
    /\ dlPc' = IF dlImpl = "lib" THEN "links" ELSE "graded"
    /\ dlSel' = 1 /\ dlLnk' = 1
    /\ UNCHANGED <<dlImpl, dlTitle, dlPage, dlUrls, dlCount, dlFs, dlLog, dlRest>>

\* page.goto or wait_for_load_state raises: nothing catches it
DlGotoRaises ==
    /\ component = "download" /\ dlPc = "start"
    /\ dlPc' = "raised"
    /\ UNCHANGED <<dlImpl, dlTitle, dlPage, dlSel, dlLnk, dlUrls, dlCount, dlFs,
                   dlLog, dlRest>>

DlAtLink ==
    /\ component = "download" /\ dlPc = "links"
    /\ dlSel <= Len(Selectors)
    /\ dlLnk <= Len(LinksOf(dlPage, dlSel))

DlLink == LinksOf(dlPage, dlSel)[dlLnk]

\* whether the local `href' of _try_direct_downloads has been assigned: line
\* 160 has completed for some earlier link
HrefBound ==
    \E s \in 1..dlSel : \E l \in 1..Len(LinksOf(dlPage, s)) :
        /\ s < dlSel \/ l < dlLnk
        /\ ~LinksOf(dlPage, s)[l].bad

\* lines 160-162: the href cannot be read (the except of line 181, whose
\* message reads the href of an earlier link), or is missing, or was
\* downloaded already
DlSkip ==
    /\ DlAtLink
    /\ \/ DlLink.bad /\ HrefBound
       \/ ~DlLink.bad /\ SkipsLink(DlLink.href, dlUrls)
    /\ dlLnk' = dlLnk + 1
    /\ UNCHANGED <<dlImpl, dlTitle, dlPage, dlPc, dlSel, dlUrls, dlCount, dlFs,
                   dlLog, dlRest>>

\* line 160 raises for the first link of the call: the handler's message
\* (line 182) reads `href', which was never assigned, and the error leaves
\* _try_direct_downloads and download_assignment
DlHrefUnbound ==
    /\ DlAtLink
    /\ DlLink.bad /\ ~HrefBound
    /\ dlPc' = "raised"
    /\ UNCHANGED <<dlImpl, dlTitle, dlPage, dlSel, dlLnk, dlUrls, dlCount, dlFs,
                   dlLog, dlRest>>

\* lines 166-179: the click downloads a file, it is saved, counted, its href
\* recorded, and it is extracted if it is an archive
DlClickSaves ==
    /\ DlAtLink
    /\ ~DlLink.bad /\ ~SkipsLink(DlLink.href, dlUrls)
    /\ \E d \in Downloads :
          /\ dlFs' \in ExtractIfArchiveResults(
                           WriteFile(dlFs, <<d.name>>, d.content), <<d.name>>)
          /\ dlLog' = Append(dlLog, Attempt(DlLink.href, "click", TRUE, d.name))
    /\ dlCount' = dlCount + 1
    /\ dlUrls' = dlUrls \cup {DlLink.href}
    /\ dlLnk' = dlLnk + 1
    /\ UNCHANGED <<dlImpl, dlTitle, dlPage, dlPc, dlSel, dlRest>>

\* lines 166-172 raise (no download within the timeout, or the save fails),
\* lines 181-183 catch
DlClickFails ==
    /\ DlAtLink
    /\ ~DlLink.bad /\ ~SkipsLink(DlLink.href, dlUrls)
    /\ dlLog' = Append(dlLog, Attempt(DlLink.href, "click", FALSE, <<>>))
    /\ dlLnk' = dlLnk + 1
    /\ UNCHANGED <<dlImpl, dlTitle, dlPage, dlPc, dlSel, dlUrls, dlCount, dlFs,
                   dlRest>>

\* the links of a selector are done: the next selector (line 155)
DlNextSelector ==
    /\ component = "download" /\ dlPc = "links"
    /\ dlSel <= Len(Selectors)
    /\ dlLnk > Len(LinksOf(dlPage, dlSel))
    /\ dlSel' = dlSel + 1 /\ dlLnk' = 1
    /\ UNCHANGED <<dlImpl, dlTitle, dlPage, dlPc, dlUrls, dlCount, dlFs, dlLog,
                   dlRest>>

\* line 187: something was saved, the fallback is not tried (lines 121-126)
DlNoFallback ==
    /\ component = "download" /\ dlPc = "links"
    /\ dlSel > Len(Selectors)
    /\ ~FallbackRuns(dlCount)
    /\ dlPc' = "returned"
    /\ UNCHANGED <<dlImpl, dlTitle, dlPage, dlSel, dlLnk, dlUrls, dlCount, dlFs,
                   dlLog, dlRest>>

\* line 187: the fallback is tried
DlFallback ==
    /\ component = "download" /\ dlPc = "links"
    /\ dlSel > Len(Selectors)
    /\ FallbackRuns(dlCount)
    /\ dlPc' = "graded"
    /\ UNCHANGED <<dlImpl, dlTitle, dlPage, dlSel, dlLnk, dlUrls, dlCount, dlFs,
                   dlLog, dlRest>>

\* the href of the one "Download Graded Copy" link can be read and is not
\* empty (lines 272-277; script lines 315-320)
DlHasGradedHref ==
    /\ Len(GradedLinks(dlPage)) = 1
    /\ ~GradedLinks(dlPage)[1].bad
    /\ GradedLinks(dlPage)[1].href # <<>>

\* lines 272-279 and 305-307 (script lines 315-320, 342-347): no such link,
\* several of them, or no href; nothing is fetched
DlNoGradedLink ==
    /\ component = "download" /\ dlPc = "graded"
    /\ ~DlHasGradedHref
    /\ dlPc' = "returned"
    /\ UNCHANGED <<dlImpl, dlTitle, dlPage, dlSel, dlLnk, dlUrls, dlCount, dlFs,
                   dlLog, dlRest>>

\* lines 281-303 (script lines 321-341): the PDF is fetched and written
DlFetchSaves ==
    /\ component = "download" /\ dlPc = "graded"
    /\ DlHasGradedHref
    /\ dlFs' = WriteFile(dlFs, <<GradedPdfName(dlImpl, dlTitle)>>, Data)
    /\ dlLog' = Append(dlLog, Attempt(GradedLinks(dlPage)[1].href, "fetch", TRUE,
                                      GradedPdfName(dlImpl, dlTitle)))
    /\ dlCount' = dlCount + 1
    /\ dlPc' = "returned"
    /\ UNCHANGED <<dlImpl, dlTitle, dlPage, dlSel, dlLnk, dlUrls, dlRest>>

\* lines 293-301 raise, lines 305-307 catch (script lines 331-347)
DlFetchFails ==
    /\ component = "download" /\ dlPc = "graded"
    /\ DlHasGradedHref
    /\ dlLog' = Append(dlLog, Attempt(GradedLinks(dlPage)[1].href, "fetch", FALSE,
                                      <<>>))
    /\ dlPc' = "returned"
    /\ UNCHANGED <<dlImpl, dlTitle, dlPage, dlSel, dlLnk, dlUrls, dlCount, dlFs,
                   dlRest>>

NextDownload ==
    \/ DlGoto \/ DlGotoRaises \/ DlSkip \/ DlHrefUnbound \/ DlClickSaves \/ DlClickFails
    \/ DlNextSelector \/ DlNoFallback \/ DlFallback \/ DlNoGradedLink
    \/ DlFetchSaves \/ DlFetchFails

SpecDownload == InitDownload /\ [][NextDownload]_vars


(***************************************************************************)
(* Claims about download_assignment.                                       *)
(***************************************************************************)
\* C2: download_assignment never raises: whatever fails (the navigation, the
\* reading of an href, a click, a save, a fetch), the call returns normally.
C2_NeverRaises == dlPc # "raised"

\* the places of the chain: a selector and a link among those it matches
DlPlaces == {p \in (1..Len(Selectors)) \X (1..MaxLinks) :
                p[2] <= Len(LinksOf(dlPage, p[1]))}
DlPlaceHref(p) == LinksOf(dlPage, p[1])[p[2]].href

\* C3 as stated: within one run of the chain no href is fetched twice,
\* whatever came of the first attempt, and the fallback fetches no href that
\* was saved.
C3_FetchedAtMostOnce ==
    \A i, j \in DOMAIN dlLog : i < j => dlLog[i].href # dlLog[j].href

\* C3 as amended: once an attempt on an href has saved a file, no later
\* selector or element and not the fallback fetches that href again; an href
\* whose attempts all failed may be tried again.
C3_SavedNeverRefetched ==
    \A i, j \in DOMAIN dlLog :
        (i < j /\ dlLog[i].ok) => dlLog[i].href # dlLog[j].href

\* an href exposed at two places was saved at the first, and the chain has
\* gone through all the selectors
C3_Witness ==
    /\ dlPc = "returned" /\ dlImpl = "lib"
    /\ \E p, q \in DlPlaces :
          /\ p # q /\ DlPlaceHref(p) = DlPlaceHref(q)
          /\ \E i \in DOMAIN dlLog :
                dlLog[i].ok /\ dlLog[i].href = DlPlaceHref(p)

\* the page exposes only a "Download Graded Copy" link
DlOnlyGradedCopy ==
    /\ Len(dlPage) = 1
    /\ dlPage[1].text = GradedText
    /\ ~dlPage[1].bad /\ dlPage[1].href # <<>>

\* C10: when the page exposes only a "Download Graded Copy" link and a PDF
\* was obtained, by the click or by the fetch, the assignment directory
\* holds exactly one file, named <sanitized title>_graded.pdf.
C10_OneGradedPdf ==
    (/\ dlPc = "returned"
     /\ DlOnlyGradedCopy
     /\ \E i \in DOMAIN dlLog : dlLog[i].ok
     /\ \A i \in DOMAIN dlLog :
           dlLog[i].ok => dlLog[i].name[Len(dlLog[i].name)] = ".pdf")
    => DOMAIN dlFs = {<<GradedPdfName(dlImpl, dlTitle)>>}


(***************************************************************************)
(* Component "run": the courses are processed one after the other, by the  *)
(* loop of main (script, --download) or by the iterations of               *)
(* interactive_workflow (library), each through download_course.           *)
(***************************************************************************)
\* A table row: the href and the text of its assignment link ("absent": the
\* row has no such link) and the text of its status cell.
Row(h, l, st) == [href |-> h, title |-> <<"x">>, link |-> l, status |-> st]

RowKinds ==
    { Row(<<"/assignments/", "1">>, "visible", <<"9", "/", "9">>),
      Row(<<"/assignments/", "2">>, "visible", <<"Graded">>),
      Row(<<"/assignments/", "1">>, "visible", <<"Submitted", "9", "/", "9">>),
      Row(<<"/assignments/", "2">>, "absent", <<"9", "/", "9">>),
      Row(<<"/assignments/", "3">>, "visible", <<"Submitted">>) }

\* A course page: whether a "Status" column header is visible and whether
\* the comparison of line 372 recognises it among the headers, and the rows.
CoursePage(hd, rows) == [header |-> hd, rows |-> rows]
Headers == {"none", "unmatched", "found"}
CoursePages == {CoursePage(hd, rows) :
                   hd \in Headers, rows \in SeqsUpTo(RowKinds, MaxRows)}

Assignment(n, u) == [name |-> n, url |-> u]

\* any(a['url'].endswith(href) for a in assignments)
Queued(queue, href) == \E k \in 1..Len(queue) : EndsWith(queue[k].url, href)

RunEvent(kind, c, what) == [kind |-> kind, course |-> c, what |-> what]

\* where an exception that leaves download_course goes: the library's
\* interactive_workflow catches it (lines 397-398) and goes on with its
\* loop; nothing in the script's main does
AfterRaise(impl) == IF impl = "lib" THEN "main" ELSE "aborted"

InitRun ==
    /\ component = "run"
    /\ ClsIdle /\ GcIdle /\ ArIdle /\ DlIdle /\ SnIdle /\ CliIdle /\ StIdle
    /\ runImpl \in {"lib", "arch"}
    /\ runCourses \in SeqsUpTo(CoursePages, MaxCourses) \ {<<>>}
    /\ runPc = "main"
    /\ runC = 0
    /\ runIndex = <<>>
    /\ runRow = 0
    /\ runQueue = <<>>
    /\ runA = 0
    /\ runSan = 0
    /\ runDirs = {}
    /\ runLog = <<>>

RunPage == runCourses[runC]

\* the next course: download_course is entered and makes the directory of
\* the course (lines 310-313; script lines 354-360, called from line 508)
RunEnterCourse ==
    /\ component = "run" /\ runPc = "main"
    /\ runC < Len(runCourses)
    /\ runC' = runC + 1
    /\ runPc' = "course"
    /\ runIndex' = <<>> /\ runRow' = 0 /\ runQueue' = <<>> /\ runA' = 0
    /\ runDirs' = runDirs \cup {runC + 1}
    /\ runLog' = Append(runLog, RunEvent("course", runC + 1, <<>>))
    /\ UNCHANGED <<runImpl, runCourses, runSan, runRest>>

\* no course is left: the loop of main ends (line 510), the user quits
\* interactive_workflow (line 385)
RunEnd ==
    /\ component = "run" /\ runPc = "main"
    /\ runC = Len(runCourses)
    /\ runPc' = "done"
    /\ UNCHANGED <<runImpl, runCourses, runC, runIndex, runRow, runQueue, runA,
                   runSan, runDirs, runLog, runRest>>

\* an exception leaves download_course
RunRaise(what) ==
    /\ runPc' = AfterRaise(runImpl)
    /\ runLog' = Append(runLog, RunEvent("raised", runC, what))
    /\ UNCHANGED <<runImpl, runCourses, runC, runIndex, runRow, runQueue, runA,
                   runSan, runDirs, runRest>>

\* page.goto / wait_for_load_state on the course page raise (lines 315-316;
\* script lines 363-364)
RunGotoCourseRaises ==
    /\ component = "run" /\ runPc = "course"
    /\ RunRaise(<<"goto">>)

\* status_column_index as lines 367-378 leave it
StatusColumnIndex(header) ==
    CASE header = "none" -> <<>>
      [] header = "unmatched" -> <<-1>>
      [] header = "found" -> <<1>>

\* the course page loads; the library goes on to the rows (lines 315-320),
\* the script looks for the Status column (lines 363-387)
RunGotoCourse ==
    /\ component = "run" /\ runPc = "course"
    /\ runImpl = "lib" \/ StatusColumnIndex(RunPage.header) # <<>>
    /\ runIndex' = IF runImpl = "lib" THEN <<>>
                   ELSE StatusColumnIndex(RunPage.header)
    /\ runRow' = 1
    /\ runPc' = "rows"
    /\ UNCHANGED <<runImpl, runCourses, runC, runQueue, runA, runSan, runDirs,
                   runLog, runRest>>

\* the script, no Status header visible: line 380 reads status_column_index,
\* which no line has assigned
RunIndexUnbound ==
    /\ component = "run" /\ runPc = "course"
    /\ runImpl = "arch" /\ StatusColumnIndex(RunPage.header) = <<>>
    /\ RunRaise(<<"status_column_index">>)

RunAtRow ==
    /\ component = "run" /\ runPc = "rows"
    /\ runRow <= Len(RunPage.rows)

RunTheRow == RunPage.rows[runRow]

\* the library, lines 320-332, for one row
LibScanRow ==
    /\ RunAtRow /\ runImpl = "lib"
    /\ runQueue' =
          IF /\ LibIsGraded(RunTheRow.status)
             /\ RunTheRow.link = "visible"
             /\ RunTheRow.href # <<>> /\ RunTheRow.title # <<>>
             /\ ~Queued(runQueue, RunTheRow.href)
          THEN Append(runQueue, Assignment(RunTheRow.title,
                                           <<"H">> \o RunTheRow.href))
          ELSE runQueue
    /\ runRow' = runRow + 1
    /\ UNCHANGED <<runImpl, runCourses, runPc, runC, runIndex, runA, runSan,
                   runDirs, runLog, runRest>>

\* assignment_title of line 392
ArchTitle(row) == IF row.link = "visible" THEN row.title ELSE <<"Unknown">>

\* is_graded of lines 390-414
ArchRowIsGraded(index, row) == ArchIsGraded(index, row.title, row.status)

\* the script, lines 389-424, for one row whose link can be read
ArchScanRow ==
    /\ RunAtRow /\ runImpl = "arch"
    /\ ArchRowIsGraded(runIndex[1], RunTheRow) => RunTheRow.link = "visible"
    /\ IF ArchRowIsGraded(runIndex[1], RunTheRow)
       THEN /\ runQueue' =
                  IF /\ RunTheRow.href # <<>> /\ ArchTitle(RunTheRow) # <<>>
                     /\ ~Queued(runQueue, RunTheRow.href)
                  THEN Append(runQueue, Assignment(ArchTitle(RunTheRow),
                                                   FullUrl(RunTheRow.href)))
                  ELSE runQueue
            /\ runLog' = runLog
       ELSE /\ runQueue' = runQueue
            /\ runLog' = Append(runLog,
                                RunEvent("skip", runC, ArchTitle(RunTheRow)))
    /\ runRow' = runRow + 1
    /\ UNCHANGED <<runImpl, runCourses, runPc, runC, runIndex, runA, runSan,
                   runDirs, runRest>>

\* the script, line 417: the row counts as graded and has no assignment
\* link, get_attribute waits for one and raises
ArchScanRowNoLink ==
    /\ RunAtRow /\ runImpl = "arch"
    /\ ArchRowIsGraded(runIndex[1], RunTheRow) /\ RunTheRow.link # "visible"
    /\ RunRaise(<<"href">>)

\* reading a cell or a link of the row raises (lines 323-330; script lines
\* 392-417)
RunRowRaises ==
    /\ RunAtRow
    /\ RunRaise(<<"row">>)

\* the rows are done (line 334); the script writes course_info.json and
\* README.md (lines 426-443)
RunRowsDone ==
    /\ component = "run" /\ runPc = "rows"
    /\ runRow > Len(RunPage.rows)
    /\ runPc' = "assignments"
    /\ runA' = 1
    /\ runLog' = Append(runLog, RunEvent("found", runC, runQueue))
                 \o (IF runImpl = "arch"
                     THEN <<RunEvent("manifest", runC, runQueue)>>
                     ELSE <<>>)
    /\ UNCHANGED <<runImpl, runCourses, runC, runIndex, runRow, runQueue, runSan,
                   runDirs, runRest>>

RunAtAssignment ==
    /\ component = "run" /\ runPc = "assignments"
    /\ runA <= Len(runQueue)

\* download_assignment returns (line 344; script line 449)
RunAssignmentReturns ==
    /\ RunAtAssignment
    /\ runLog' = Append(runLog, RunEvent("assignment", runC, runQueue[runA].url))
    /\ runA' = runA + 1
    /\ UNCHANGED <<runImpl, runCourses, runPc, runC, runIndex, runRow, runQueue,
                   runSan, runDirs, runRest>>

\* download_assignment raises: its page.goto is in no try (line 113; script
\* line 308)
RunAssignmentRaises ==
    /\ RunAtAssignment
    /\ runPc' = AfterRaise(runImpl)
    /\ runLog' = runLog \o <<RunEvent("assignment", runC, runQueue[runA].url),
                              RunEvent("raised", runC, runQueue[runA].url)>>
    /\ UNCHANGED <<runImpl, runCourses, runC, runIndex, runRow, runQueue, runA,
                   runSan, runDirs, runRest>>

\* the assignments are done: download_course returns
RunCourseReturns ==
    /\ component = "run" /\ runPc = "assignments"
    /\ runA > Len(runQueue)
    /\ runPc' = IF runImpl = "lib" THEN "prompts" ELSE "main"
    /\ UNCHANGED <<runImpl, runCourses, runC, runIndex, runRow, runQueue, runA,
                   runSan, runDirs, runLog, runRest>>

\* interactive_workflow, lines 389-398: the two questions and what follows
\* from the answers; sanitized_name is assigned under the first answer
\* only, and rmtree raises when the name is unassigned or names no
\* directory (caught at line 397)
LibPrompts ==
    /\ component = "run" /\ runPc = "prompts"
    /\ \E git, del \in BOOLEAN :
          /\ runSan' = IF git THEN runC ELSE runSan
          /\ runDirs' = IF del THEN runDirs \ {runSan'} ELSE runDirs
          /\ runLog' =
                (IF git THEN Append(runLog, RunEvent("git", runC, <<>>))
                 ELSE runLog)
                \o (IF del
                    THEN <<RunEvent("delete", runC, <<>>),
                           RunEvent(IF runSan' \in runDirs THEN "rmtree"
                                    ELSE "raised", runSan', <<>>)>>
                    ELSE <<>>)
    /\ runPc' = "main"
    /\ UNCHANGED <<runImpl, runCourses, runC, runIndex, runRow, runQueue, runA,
                   runRest>>

NextRun ==
    \/ RunEnterCourse \/ RunEnd \/ RunGotoCourseRaises \/ RunGotoCourse
    \/ RunIndexUnbound \/ LibScanRow \/ ArchScanRow \/ ArchScanRowNoLink
    \/ RunRowRaises \/ RunRowsDone \/ RunAssignmentReturns
    \/ RunAssignmentRaises \/ RunCourseReturns \/ LibPrompts

SpecRun == InitRun /\ [][NextRun]_vars

\* the places of the chain that expose the href h, readably
DlPlacesOf(h) ==
    {p \in DlPlaces : ~LinksOf(dlPage, p[1])[p[2]].bad /\ DlPlaceHref(p) = h}

\* the clicks made on the href h
DlClicksOn(h) ==
    {i \in DOMAIN dlLog : dlLog[i].via = "click" /\ dlLog[i].href = h}

\* the chain of selectors was entered and has ended
DlChainOver ==
    /\ dlImpl = "lib" /\ dlSel >= 1
    /\ dlPc \in {"graded", "returned", "raised"}

\* C14: once the chain has ended, every href that some selector exposes was
\* clicked at each place that exposes it, until a click saved it: neither a
\* success nor a failure at an earlier place ends the chain.
C14_EveryPlaceAttempted ==
    DlChainOver =>
        \A p \in DlPlaces :
            LET l == LinksOf(dlPage, p[1])[p[2]] IN
            (~l.bad /\ l.href # <<>>) =>
                \/ \E i \in DlClicksOn(l.href) : dlLog[i].ok
                \/ Cardinality(DlClicksOn(l.href)) = Cardinality(DlPlacesOf(l.href))


\* the direct fetch was attempted
DlFetchAttempted == \E i \in DOMAIN dlLog : dlLog[i].via = "fetch"

\* the click on the "Download Graded Copy" link has saved a file
DlGradedClickSaved ==
    \E i \in DlClicksOn(GradedLinks(dlPage)[1].href) : dlLog[i].ok

\* C15: when the library's download_assignment has returned, the direct
\* fetch was attempted exactly if the page has a "Download Graded Copy" link
\* with an href and no click on it has saved a file, whatever else was saved.
C15_FetchIffTriggerFailed ==
    (dlImpl = "lib" /\ dlPc = "returned") =>
        (DlFetchAttempted <=> (DlHasGradedHref /\ ~DlGradedClickSaved))


(***************************************************************************)
(* Claims about the run.                                                   *)
(***************************************************************************)
RunLogged(kind, c, what) ==
    \E i \in DOMAIN runLog : runLog[i] = RunEvent(kind, c, what)

\* the courses the run is through with
RunLeft == IF runPc \in {"main", "done", "aborted", "prompts"}
           THEN 1..runC ELSE 1..(runC - 1)

\* C4: wherever a failure is placed, the run completes to its end, every
\* course is processed, and every assignment a course has queued for
\* download is processed.
C4_FailureIsolated ==
    /\ runPc # "aborted"
    /\ runPc = "done" => \A c \in 1..Len(runCourses) : RunLogged("course", c, <<>>)
    /\ \A i \in DOMAIN runLog :
          (runLog[i].kind = "found" /\ runLog[i].course \in RunLeft)
          => \A k \in 1..Len(runLog[i].what) :
                RunLogged("assignment", runLog[i].course, runLog[i].what[k].url)


\* what the implementation at hand decides for a row
RunRowIsGraded(row) ==
    IF runImpl = "lib" THEN LibIsGraded(row.status)
    ELSE ArchRowIsGraded(runIndex[1], row)

\* the rows of the current course that the scan is through with
RunScanned == IF runPc \in {"rows", "assignments"}
              THEN 1..(runRow - 1) ELSE {}

\* the assignment of the row is in the queue
RunRowQueued(row) ==
    /\ row.link = "visible" /\ row.href # <<>>
    /\ \E k \in 1..Len(runQueue) : runQueue[k].url = <<"H">> \o row.href

\* C11: only rows classified Graded are queued, and every scanned row whose
\* assignment is not queued has a skip event naming it in the log.
C11_SkippedRowsLogged ==
    /\ \A k \in 1..Len(runQueue) :
          runPc \in {"rows", "assignments"} => \E r \in RunScanned :
             /\ RunRowIsGraded(RunPage.rows[r])
             /\ runQueue[k].url = <<"H">> \o RunPage.rows[r].href
    /\ \A r \in RunScanned :
          \/ RunRowQueued(RunPage.rows[r])
          \/ RunLogged("skip", runC, ArchTitle(RunPage.rows[r]))


(***************************************************************************)
(* Component "sanitize": the expressions that turn a course name or an     *)
(* assignment name into the name of a directory or of a file.              *)
(***************************************************************************)
\* s.split(" assignments")[0]
SplitAssignments(t) ==
    LET hits == {i \in 1..(Len(t) - 1) : t[i] = " " /\ t[i + 1] = "assignments"}
    IN  IF hits = {} THEN t
        ELSE SubSeq(t, 1, (CHOOSE i \in hits : \A j \in hits : i <= j) - 1)

\* sanitized_name of gradescope_lib.download_course (line 311)
LibCourseDir(n) == Strip(KeepChars(n, {" ", "-"}))

\* sanitized_assignment_name of gradescope_lib.download_course (line 341)
LibAssignmentDir(n) == Strip(KeepChars(n, {".", "_", "-"}))

\* sanitized_course_name of the script's download_course (lines 357-358)
ArchCourseDir(n) == SplitAssignments(Strip(KeepChars(n, {" ", "-"})))

\* sanitized_assignment_name of the script's download_course (line 447)
ArchAssignmentDir(n) == Strip(KeepChars(n, {" ", "-"}))

\* sanitized_course_name of the script's main (line 516)
ArchRepoDir(n) == Strip(KeepChars(n, {" ", "-"}))

SanitizeKinds == {"libCourseDir", "libAssignmentDir", "libFileStem",
                  "archCourseDir", "archAssignmentDir", "archFileStem",
                  "archRepoDir"}

Sanitize(kind, n) ==
    CASE kind = "libCourseDir" -> LibCourseDir(n)
      [] kind = "libAssignmentDir" -> LibAssignmentDir(n)
      [] kind = "libFileStem" -> LibSafeName(n)
      [] kind = "archCourseDir" -> ArchCourseDir(n)
      [] kind = "archAssignmentDir" -> ArchAssignmentDir(n)
      [] kind = "archFileStem" -> ArchSafeName(n)
      [] kind = "archRepoDir" -> ArchRepoDir(n)

InitSanitize ==
    /\ component = "sanitize"
    /\ ClsIdle /\ GcIdle /\ ArIdle /\ DlIdle /\ RunIdle /\ CliIdle /\ StIdle
    /\ snKind \in SanitizeKinds
    /\ snName \in SeqsUpTo(TitleChars, MaxNameLen)
    /\ snOnce = <<>> /\ snTwice = <<>>
    /\ snPc = "given"

\* the expression is applied to the name
SnSanitize ==
    /\ component = "sanitize" /\ snPc = "given"
    /\ snOnce' = Sanitize(snKind, snName)
    /\ snPc' = "once"
    /\ UNCHANGED <<snKind, snName, snTwice, snRest>>

\* the expression is applied to its own result
SnSanitizeAgain ==
    /\ component = "sanitize" /\ snPc = "once"
    /\ snTwice' = Sanitize(snKind, snOnce)
    /\ snPc' = "twice"
    /\ UNCHANGED <<snKind, snName, snOnce, snRest>>

NextSanitize == SnSanitize \/ SnSanitizeAgain

SpecSanitize == InitSanitize /\ [][NextSanitize]_vars

\* the characters a sanitized name may consist of: alphanumerics, space and
\* hyphen, and '.' and '_' in a name made from an assignment name
SnPermitted(kind) ==
    {"a", "9", "assignments", " ", "-"}
        \cup (IF kind \in {"libAssignmentDir", "libFileStem",
                           "archAssignmentDir", "archFileStem"}
              THEN {".", "_"} ELSE {})

\* C12: a sanitized name consists of permitted characters only, neither
\* starts nor ends with a blank, and sanitizing it again leaves it as it is.
C12_SanitizeIdempotent ==
    /\ snPc \in {"once", "twice"} =>
          /\ \A i \in 1..Len(snOnce) : snOnce[i] \in SnPermitted(snKind)
          /\ snOnce # <<>> => ~IsSpace(snOnce[1]) /\ ~IsSpace(snOnce[Len(snOnce)])
    /\ snPc = "twice" => snTwice = snOnce


(***************************************************************************)
(* Component "cli": main of gradescope_archiver.                           *)
(***************************************************************************)
Args(s, d, r, a) == [setup |-> s, download |-> d, create_repos |-> r, all |-> a]

\* lines 476-479
EffectiveArgs(args) ==
    IF args.all THEN Args(TRUE, TRUE, TRUE, TRUE) ELSE args

\* what follows the download of the courses: nothing, the branch of line
\* 512 is an elif of line 505
AfterDownload(args) == "close"

\* lines 505-526: the branch taken
Branch(args) ==
    IF args.download THEN "download"
    ELSE IF args.create_repos THEN "repos" ELSE "list"

InitCli ==
    /\ component = "cli"
    /\ ClsIdle /\ GcIdle /\ ArIdle /\ DlIdle /\ RunIdle /\ SnIdle /\ StIdle
    /\ cliArgs \in {Args(s, d, r, a) : s, d, r, a \in BOOLEAN}
    /\ cliAuth \in BOOLEAN
    /\ cliFound \in 0..MaxCourses
    /\ cliDirs \in SUBSET (1..MaxCourses)
    /\ cliPc = "start"
    /\ cliI = 0
    /\ cliLog = <<>>

\* lines 465-479
CliParse ==
    /\ component = "cli" /\ cliPc = "start"
    /\ cliArgs' = EffectiveArgs(cliArgs)
    /\ cliPc' = "parsed"
    /\ UNCHANGED <<cliAuth, cliFound, cliDirs, cliI, cliLog, cliRest>>

\* lines 481-484: setup_auth saves the session; main returns when nothing
\* else was asked for
CliSetup ==
    /\ component = "cli" /\ cliPc = "parsed"
    /\ cliArgs.setup
    /\ cliAuth' = TRUE
    /\ cliLog' = Append(cliLog, <<"setup">>)
    /\ cliPc' = IF ~(cliArgs.download \/ cliArgs.create_repos)
                THEN "returned" ELSE "auth"
    /\ UNCHANGED <<cliArgs, cliFound, cliDirs, cliI, cliRest>>

\* setup_auth raises (lines 26-41: the browser cannot be launched, the
\* state cannot be saved)
CliSetupRaises ==
    /\ component = "cli" /\ cliPc = "parsed"
    /\ cliArgs.setup
    /\ cliPc' = "aborted"
    /\ UNCHANGED <<cliArgs, cliAuth, cliFound, cliDirs, cliI, cliLog, cliRest>>

\* line 481, no setup asked for
CliNoSetup ==
    /\ component = "cli" /\ cliPc = "parsed"
    /\ ~cliArgs.setup
    /\ cliPc' = "auth"
    /\ UNCHANGED <<cliArgs, cliAuth, cliFound, cliDirs, cliI, cliLog, cliRest>>

\* lines 487-489
CliNoAuth ==
    /\ component = "cli" /\ cliPc = "auth"
    /\ ~cliAuth
    /\ cliPc' = "returned"
    /\ UNCHANGED <<cliArgs, cliAuth, cliFound, cliDirs, cliI, cliLog, cliRest>>

\* lines 492-502: no course is found
CliNoCourses ==
    /\ component = "cli" /\ cliPc = "auth"
    /\ cliAuth /\ cliFound = 0
    /\ cliPc' = "returned"
    /\ UNCHANGED <<cliArgs, cliAuth, cliFound, cliDirs, cliI, cliLog, cliRest>>

\* lines 492-526: courses are found, one branch is entered
CliCourses ==
    /\ component = "cli" /\ cliPc = "auth"
    /\ cliAuth /\ cliFound > 0
    /\ cliPc' = Branch(cliArgs)
    /\ cliI' = 1
    /\ UNCHANGED <<cliArgs, cliAuth, cliFound, cliDirs, cliLog, cliRest>>

\* lines 507-509: download_course returns, having made the directory
CliDownloadCourse ==
    /\ component = "cli" /\ cliPc = "download"
    /\ cliI <= cliFound
    /\ cliDirs' = cliDirs \cup {cliI}
    /\ cliLog' = Append(cliLog, <<"download", cliI>>)
    /\ cliI' = cliI + 1
    /\ UNCHANGED <<cliArgs, cliAuth, cliFound, cliPc, cliRest>>

\* line 508: download_course raises after it has made the directory
CliDownloadRaises ==
    /\ component = "cli" /\ cliPc = "download"
    /\ cliI <= cliFound
    /\ cliDirs' = cliDirs \cup {cliI}
    /\ cliPc' = "aborted"
    /\ UNCHANGED <<cliArgs, cliAuth, cliFound, cliI, cliLog, cliRest>>

\* line 510
CliDownloadDone ==
    /\ component = "cli" /\ cliPc = "download"
    /\ cliI > cliFound
    /\ cliPc' = AfterDownload(cliArgs)
    /\ cliI' = 1
    /\ UNCHANGED <<cliArgs, cliAuth, cliFound, cliDirs, cliLog, cliRest>>

\* lines 515-520: create_git_repo for a course whose directory exists
CliRepo ==
    /\ component = "cli" /\ cliPc = "repos"
    /\ cliI <= cliFound
    /\ cliLog' = IF cliI \in cliDirs THEN Append(cliLog, <<"repo", cliI>>)
                 ELSE cliLog
    /\ cliI' = cliI + 1
    /\ UNCHANGED <<cliArgs, cliAuth, cliFound, cliDirs, cliPc, cliRest>>

\* line 521
CliReposDone ==
    /\ component = "cli" /\ cliPc = "repos"
    /\ cliI > cliFound
    /\ cliPc' = "close"
    /\ UNCHANGED <<cliArgs, cliAuth, cliFound, cliDirs, cliI, cliLog, cliRest>>

\* lines 523-526
CliList ==
    /\ component = "cli" /\ cliPc = "list"
    /\ cliLog' = Append(cliLog, <<"list">>)
    /\ cliPc' = "close"
    /\ UNCHANGED <<cliArgs, cliAuth, cliFound, cliDirs, cliI, cliRest>>

\* line 528
CliClose ==
    /\ component = "cli" /\ cliPc = "close"
    /\ cliPc' = "returned"
    /\ UNCHANGED <<cliArgs, cliAuth, cliFound, cliDirs, cliI, cliLog, cliRest>>

NextCli ==
    \/ CliParse \/ CliSetup \/ CliSetupRaises \/ CliNoSetup \/ CliNoAuth
    \/ CliNoCourses \/ CliCourses \/ CliDownloadCourse \/ CliDownloadRaises
    \/ CliDownloadDone \/ CliRepo \/ CliReposDone \/ CliList \/ CliClose

SpecCli == InitCli /\ [][NextCli]_vars

CliLogged(e) == \E i \in DOMAIN cliLog : cliLog[i] = e

\* C13: a run with --all that has an auth file after setup, finds courses
\* and comes to its end has done the setup, downloaded every course, and
\* reached create_git_repo for every course whose directory exists.
C13_AllCreatesRepos ==
    (/\ cliPc = "returned"
     /\ cliArgs.all /\ cliAuth /\ cliFound > 0)
    => /\ CliLogged(<<"setup">>)
       /\ \A c \in 1..cliFound :
             /\ CliLogged(<<"download", c>>)
             /\ c \in cliDirs => CliLogged(<<"repo", c>>)


\* C16: in the script, once download_course is past the look-up of the
\* Status header on a page without one, status_column_index is -1 (every
\* row goes through the whole-row check) and the look-up has not raised.
C16_MissingHeaderFallsBack ==
    (/\ runImpl = "arch" /\ runC >= 1
     /\ runCourses[runC].header = "none"
     /\ runPc # "course"
     /\ ~RunLogged("raised", runC, <<"goto">>))
    => /\ runIndex = <<-1>>
       /\ ~RunLogged("raised", runC, <<"status_column_index">>)


\* an event of the given kind for the course c comes before the i-th event
RunEarlier(kind, c, i) ==
    \E j \in 1..(i - 1) : runLog[j].kind = kind /\ runLog[j].course = c

\* C17: no assignment download of a course starts, and no course directory
\* is handed to create_git_repo, before the manifest and the README of the
\* course were written, and these list exactly the queued assignments.
C17_ManifestBeforeDownloads ==
    \A i \in DOMAIN runLog :
        /\ runLog[i].kind \in {"assignment", "git"}
              => RunEarlier("manifest", runLog[i].course, i)
        /\ runLog[i].kind = "manifest"
              => \E j \in 1..(i - 1) :
                    /\ runLog[j] = RunEvent("found", runLog[i].course,
                                            runLog[i].what)


(***************************************************************************)
(* Component "store": update_course_data on courses.json.                  *)
(***************************************************************************)
StUrls == {"u1", "u2"}

\* what a discovery tells about a course, besides its url
StInfos == { [full_name |-> "A", short_name |-> "a", term |-> "F24"],
             [full_name |-> "B", short_name |-> "b", term |-> "S25"] }

Discovered(u, info) ==
    [url |-> u, full_name |-> info.full_name, short_name |-> info.short_name,
     term |-> info.term]

DiscoveredCourses == {Discovered(u, info) : u \in StUrls, info \in StInfos}

Entry(full, short, term, u, t, rn) ==
    [full_name |-> full, short_name |-> short, term |-> term, url |-> u,
     timestamp |-> t, rename |-> rn]

\* lines 29-36
NewEntry(course, t) ==
    Entry(course.full_name, course.short_name, course.term, course.url, t, "")

\* an update that builds the entry anew
UpdateEntryAnew(old, course, t) == NewEntry(course, t)

\* lines 39-42
UpdateEntry(old, course, t) ==
    [old EXCEPT !.full_name = course.full_name,
                !.short_name = course.short_name,
                !.term = course.term,
                !.timestamp = t]

\* courses_data[course_id] = ... (lines 27-42)
StPut(store, course, t) ==
    [u \in (DOMAIN store) \cup {course.url} |->
        IF u # course.url THEN store[u]
        ELSE IF u \in DOMAIN store THEN UpdateEntry(store[u], course, t)
        ELSE NewEntry(course, t)]

\* the loop of lines 26-42, from the k-th course on
RECURSIVE StUpdateFrom(_, _, _, _)
StUpdateFrom(store, list, k, t) ==
    IF k > Len(list) THEN store
    ELSE StUpdateFrom(StPut(store, list[k], t), list, k + 1, t)

\* the stores a run may find: entries written by earlier calls, the rename
\* field edited by the user or not
StStoredEntries(u) ==
    {Entry(i.full_name, i.short_name, i.term, u, 0, rn) :
        i \in StInfos, rn \in {"", "r"}}

StStores ==
    UNION {{st \in [D -> UNION {StStoredEntries(u) : u \in StUrls}] :
               \A u \in D : st[u].url = u} : D \in SUBSET StUrls}

InitStore ==
    /\ component = "store"
    /\ ClsIdle /\ GcIdle /\ ArIdle /\ DlIdle /\ RunIdle /\ SnIdle /\ CliIdle
    /\ stStore \in StStores
    /\ stPrev = stStore
    /\ stList = <<>>
    /\ stCalls = 0
    /\ stPc = "ready"

\* update_course_data(discovered_courses) returns (lines 24-46)
StUpdate ==
    /\ component = "store" /\ stCalls < MaxCalls
    /\ \E list \in SeqsUpTo(DiscoveredCourses, MaxDiscovered) :
          /\ stList' = list
          /\ stStore' = StUpdateFrom(stStore, list, 1, stCalls + 1)
    /\ stPrev' = stStore
    /\ stCalls' = stCalls + 1
    /\ stPc' = "called"
    /\ UNCHANGED stRest

\* update_course_data raises before save_courses_to_json (line 44): the
\* file cannot be read, or a discovered course lacks a key
StUpdateRaises ==
    /\ component = "store" /\ stCalls < MaxCalls
    /\ \E list \in SeqsUpTo(DiscoveredCourses, MaxDiscovered) : stList' = list
    /\ stPrev' = stStore
    /\ stCalls' = stCalls + 1
    /\ stPc' = "raised"
    /\ UNCHANGED <<stStore, stRest>>

NextStore == StUpdate \/ StUpdateRaises

SpecStore == InitStore /\ [][NextStore]_vars

StListed == {stList[k].url : k \in 1..Len(stList)}

\* C18: a call of update_course_data removes no entry, leaves the entries
\* whose url is not in the list as they are, changes at most full_name,
\* short_name, term and timestamp of the others (rename and url stay), and
\* gives a new entry the rename "".
C18_UpdateFrame ==
    /\ DOMAIN stPrev \subseteq DOMAIN stStore
    /\ \A u \in DOMAIN stPrev :
          /\ u \notin StListed => stStore[u] = stPrev[u]
          /\ stStore[u].rename = stPrev[u].rename
          /\ stStore[u].url = stPrev[u].url
    /\ \A u \in DOMAIN stStore \ DOMAIN stPrev : stStore[u].rename = ""

\* a call has given a renamed entry another full name and added an entry
C18_Witness ==
    /\ stPc = "called"
    /\ \E u \in DOMAIN stPrev :
          /\ u \in StListed /\ stPrev[u].rename = "r"
          /\ stStore[u].full_name # stPrev[u].full_name
    /\ DOMAIN stStore # DOMAIN stPrev


\* C19: whenever the user confirms the deletion, the directory removed is
\* that of the course selected in the same iteration, whatever the answer
\* to the Git question was.
C19_DeletesSelectedCourse ==
    \A i \in DOMAIN runLog :
        runLog[i].kind = "delete" =>
            /\ i + 1 \in DOMAIN runLog
            /\ runLog[i + 1] = RunEvent("rmtree", runLog[i].course, <<>>)

=============================================================================
